---------------------------- MODULE Spec2Model ----------------------------
(***************************************************************************)
(* Model of scripts/format_test_output.py: the section emptiness           *)
(* classifier (is_empty_test_file_section), the word wrapper               *)
(* (wrap_text_with_indent) and the stream driver (process_test_output).    *)
(*                                                                         *)
(* A Python string is a sequence of one-character strings.  Code points    *)
(* outside ASCII are named: "chk" is U+2713, "cross" is U+2717, "bullet"   *)
(* is U+2022 and "ESC" is the escape character \033; each is one element,  *)
(* as len() counts one for each.                                           *)
(***************************************************************************)
EXTENDS Integers, Sequences, FiniteSets

VARIABLES
    TERM_WIDTH,     \* module global, resolved once at import
    lines,          \* the line buffer
    i,              \* the driver's cursor (0-based, as in the code)
    out,            \* lines written to stdout, in order
    src,            \* history: src[j] is the 1-based input line out[j] was written for
    visits,         \* history: visits[k] counts the loop iterations that consumed input line k
    pc,             \* position of the program
    text,           \* wrap_text_with_indent's arguments and result
    indent_len,
    max_width,
    wrapped_lines,
    start_idx,      \* is_empty_test_file_section's argument and result
    is_empty

vars == <<TERM_WIDTH, lines, i, out, src, visits, pc,
          text, indent_len, max_width, wrapped_lines, start_idx, is_empty>>

----------------------------------------------------------------------------
(* Bounds of the model *)

MaxLines == 4       \* lines read from stdin by the driver
MaxWidth == 6       \* largest terminal width tried by the driver
MaxWords == 3       \* words of a text handed to the wrapper alone
MaxIndent == 3      \* largest indent_len handed to the wrapper alone
MaxWrapWidth == 7   \* largest max_width handed to the wrapper alone
MaxPad == 15        \* blank or notice lines leading a classifier buffer
MaxTail == 2        \* lines after them

(* Program constants *)

LOOKAHEAD == 15         \* range(start_idx, min(start_idx + 15, len(lines)))
DIVIDER_RUN == 10       \* '=' * 10
FALLBACK_COLUMNS == 120 \* shutil.get_terminal_size((120, 24))

----------------------------------------------------------------------------
(* Strings *)

Min(a, b) == IF a <= b THEN a ELSE b

\* F(v), with v evaluated once and bound to F's parameter: a local variable
Let(v, F(_)) == CHOOSE r \in {F(x) : x \in {v}} : TRUE

\* ' ' * n, also for n <= 0
Repeat(c, n) == [k \in 1..n |-> c]

\* what str.strip(), str.split() and the regex class \s take for whitespace
IsSpace(c) == c \in {" ", "\t", "\r"}

IsDigit(c) == c \in {"0", "1", "2", "3", "4", "5", "6", "7", "8", "9"}

\* number of leading whitespace characters of s
RECURSIVE LeadingSpaces(_)
LeadingSpaces(str) == Let(str, LAMBDA s :
    IF s = <<>> \/ ~IsSpace(Head(s)) THEN 0 ELSE 1 + LeadingSpaces(Tail(s)))

\* str.lstrip()
LStrip(str) == Let(str, LAMBDA s : SubSeq(s, LeadingSpaces(s) + 1, Len(s)))

\* str.rstrip()
RECURSIVE RStrip(_)
RStrip(str) == Let(str, LAMBDA s :
    IF s = <<>> \/ ~IsSpace(s[Len(s)]) THEN s ELSE RStrip(SubSeq(s, 1, Len(s) - 1)))

\* str.strip()
Strip(s) == RStrip(LStrip(s))

\* str.startswith(p)
StartsWith(str, p) == Let(str, LAMBDA s : Len(s) >= Len(p) /\ SubSeq(s, 1, Len(p)) = p)

\* p in s
Contains(str, p) == Let(str, LAMBDA s :
    \E k \in 0..(Len(s) - Len(p)) : SubSeq(s, k + 1, k + Len(p)) = p)

UPPER == <<"A","B","C","D","E","F","G","H","I","J","K","L","M",
           "N","O","P","Q","R","S","T","U","V","W","X","Y","Z">>
LOWER == <<"a","b","c","d","e","f","g","h","i","j","k","l","m",
           "n","o","p","q","r","s","t","u","v","w","x","y","z">>

LowerChar(c) ==
    IF \E k \in 1..26 : UPPER[k] = c
    THEN LOWER[CHOOSE k \in 1..26 : UPPER[k] = c]
    ELSE c

\* str.lower()
Lower(str) == Let(str, LAMBDA s : [k \in 1..Len(s) |-> LowerChar(s[k])])

\* number of leading non-whitespace characters of s
RECURSIVE WordLen(_)
WordLen(str) == Let(str, LAMBDA s :
    IF s = <<>> \/ IsSpace(Head(s)) THEN 0 ELSE 1 + WordLen(Tail(s)))

\* str.split(): the maximal runs of non-whitespace, in order
RECURSIVE Split(_)
Split(str) == Let(LStrip(str), LAMBDA t :
    IF t = <<>> THEN <<>>
    ELSE <<SubSeq(t, 1, WordLen(t))>> \o Split(SubSeq(t, WordLen(t) + 1, Len(t))))

----------------------------------------------------------------------------
(* ANSI colour codes *)

DIM   == <<"ESC", "[", "2", "m">>
GRAY  == <<"ESC", "[", "9", "0", "m">>
RESET == <<"ESC", "[", "0", "m">>

----------------------------------------------------------------------------
(* is_empty_test_file_section *)

INITIALIZED == <<"i","n","i","t","i","a","l","i","z","e","d">>

INDICATORS == {
    <<"chk">>, <<"cross">>,
    <<"S","u","c","c","e","s","s">>, <<"F","a","i","l","u","r","e">>,
    <<"p","a","s","s","e","d">>, <<"f","a","i","l","e","d">>,
    <<"i","t","(">>, <<"d","e","s","c","r","i","b","e","(">>,
    <<"P","A","S","S">>, <<"F","A","I","L">>,
    <<"E","r","r","o","r">>, <<"p","e","n","d","i","n","g">> }

\* 'initialized' in line.lower() or not line
IsNoise(line) == Contains(Lower(line), INITIALIZED) \/ line = <<>>

\* line.startswith('=') and i > start_idx
HitsNextSection(line, k, start) == StartsWith(line, <<"=">>) /\ k > start

\* any(indicator in line for indicator in [...])
HasIndicator(line) == \E ind \in INDICATORS : Contains(line, ind)

\* a faulty variant of WindowEnd: the window is measured from the start of the buffer
WindowEndAbsolute(buf, start) == Min(LOOKAHEAD, Len(buf))

\* min(start_idx + 15, len(lines))
WindowEnd(buf, start) == Min(start + LOOKAHEAD, Len(buf))

\* the for loop from index k (0-based) on, found content lines counted so far
RECURSIVE ScanSection(_, _, _, _)
ScanSection(buf, start, k, found) ==
    IF k >= WindowEnd(buf, start) THEN found = 0
    ELSE Let(Strip(buf[k + 1]), LAMBDA line :
         IF IsNoise(line) THEN ScanSection(buf, start, k + 1, found)
         ELSE IF HitsNextSection(line, k, start) THEN found = 0
         ELSE IF HasIndicator(line) THEN FALSE
         ELSE ScanSection(buf, start, k + 1, found + 1))

is_empty_test_file_section(buf, start) == ScanSection(buf, start, start, 0)

----------------------------------------------------------------------------
(* wrap_text_with_indent *)

\* test_line: the first word is joined without a space
TestLine(k, current_line, word) ==
    IF k = 1 THEN current_line \o word ELSE current_line \o <<" ">> \o word

\* len(test_line) <= max_width
Fits(test_line, width) == Len(test_line) <= width

\* a faulty variant of NewLine: the word that did not fit is left out
NewLineWithoutWord(indent_str, word) == indent_str

\* current_line = indent_str + word
NewLine(indent_str, word) == indent_str \o word

\* lines.append(current_line) under "if current_line.strip()"
Flush(acc, current_line) ==
    IF Strip(current_line) # <<>> THEN Append(acc, current_line) ELSE acc

\* the for loop over enumerate(words), from the k-th word (1-based) on
RECURSIVE PackWords(_, _, _, _, _, _)
PackWords(words, k, current_line, acc, indent_str, width) ==
    IF k > Len(words) THEN Flush(acc, current_line)
    ELSE Let(TestLine(k, current_line, words[k]), LAMBDA test_line :
         IF Fits(test_line, width)
         THEN PackWords(words, k + 1, test_line, acc, indent_str, width)
         ELSE PackWords(words, k + 1, NewLine(indent_str, words[k]),
                        Flush(acc, current_line), indent_str, width))

wrap_text_with_indent(t, ind, width) ==
    IF Len(t) <= width THEN <<t>>
    ELSE IF Split(t) = <<>> THEN <<t>>
    ELSE LET initial_indent == SubSeq(t, 1, LeadingSpaces(t))
             remaining == LStrip(t)
         IN  Let(Split(remaining), LAMBDA words :
             Let(PackWords(words, 1, initial_indent, <<>>, Repeat(" ", ind), width),
                 LAMBDA packed : IF packed # <<>> THEN packed ELSE <<t>>))

----------------------------------------------------------------------------
(* process_test_output: the tests of the loop body *)

TESTING == <<"T","e","s","t","i","n","g",":">>

\* a faulty variant of IsDivider: the run of '=' is not counted
IsDividerAnyRun(line) == StartsWith(Strip(line), <<"=">>)

\* line.strip().startswith('=' * 10)
IsDivider(line) == StartsWith(Strip(line), Repeat("=", DIVIDER_RUN))

\* lines[i + 1].strip().startswith('Testing:')
IsHeader(line) == StartsWith(Strip(line), TESTING)

\* the outer two ifs and is_empty, for cursor k (0-based)
IsEmptySectionAt(buf, k) ==
    /\ k < Len(buf)
    /\ IsDivider(buf[k + 1])
    /\ k + 1 < Len(buf)
    /\ IsHeader(buf[k + 2])
    /\ is_empty_test_file_section(buf, k + 2)

\* f"{GRAY}{line}{RESET}"
Dimmed(line) == GRAY \o line \o RESET

\* length of the match of (chk|cross|[0-9]+\)|bullet|\*) at the head of s, 0 for none
RECURSIVE DigitRun(_)
DigitRun(str) == Let(str, LAMBDA s :
    IF s = <<>> \/ ~IsDigit(Head(s)) THEN 0 ELSE 1 + DigitRun(Tail(s)))

MarkerLen(str) == Let(str, LAMBDA s :
    IF s = <<>> THEN 0
    ELSE IF Head(s) \in {"chk", "cross", "bullet", "*"} THEN 1
    ELSE IF DigitRun(s) > 0 /\ DigitRun(s) < Len(s) /\ s[DigitRun(s) + 1] = ")"
         THEN DigitRun(s) + 1
    ELSE 0)

\* re.match(r'^(\s*)(chk|cross|[0-9]+\)|bullet|\*)\s+(.*)$', line): every
\* quantifier is greedy and none can give a character back, so the groups
\* are the maximal runs
StatusMatch(line) ==
    Let(LStrip(line), LAMBDA rest :
    Let(MarkerLen(rest), LAMBDA m :
    Let(SubSeq(rest, m + 1, Len(rest)), LAMBDA after :
        [ ok          |-> m > 0 /\ LeadingSpaces(after) > 0,
          indent      |-> SubSeq(line, 1, LeadingSpaces(line)),
          status      |-> SubSeq(rest, 1, m),
          description |-> LStrip(after) ])))

\* indent_len = len(indent) + len(status) + 1
IndentLen(m) == Len(m.indent) + Len(m.status) + 1

\* full_line = f"{indent}{status} {description}"
FullLine(m) == m.indent \o m.status \o <<" ">> \o m.description

\* a faulty variant of NeedsWrap: the raw line is measured, not the reconstructed one
NeedsWrapRaw(line, m, width) == Len(line) > width

\* len(full_line) > TERM_WIDTH
NeedsWrap(line, m, width) == Len(FullLine(m)) > width

\* TERM_WIDTH - indent_len
WrapWidth(m, width) == width - IndentLen(m)

\* a faulty variant of WrappedGroup: the line that carries the marker is left out
WrappedGroupWithoutFirst(m, width) ==
    Tail(wrap_text_with_indent(m.description, IndentLen(m), WrapWidth(m, width)))

\* the lines printed by the wrapping branch
WrappedGroup(m, width) ==
    Let(wrap_text_with_indent(m.description, IndentLen(m), WrapWidth(m, width)),
        LAMBDA wrapped : <<m.indent \o m.status \o <<" ">> \o wrapped[1]>> \o Tail(wrapped))

\* a faulty variant of DimAdvance: only the divider is stepped over
DimAdvanceByOne == i + 1

\* i += 2
DimAdvance == i + 2

----------------------------------------------------------------------------
(* Inputs *)

SeqsUpTo(S, n) == UNION {[1..m -> S] : m \in 0..n}

DIVIDER  == Repeat("=", DIVIDER_RUN)
SHORTDIV == <<"=", "=">>
HEADER   == TESTING \o <<" ", "f">>
BLANK    == <<>>
PASSED   == <<" ", "chk", " ", "a", " ", "b", " ", "c">>
NUMBERED == <<"1", ")", " ", " ", "a", " ", "b">>

\* the lines stdin may deliver to the driver
InputLines == {DIVIDER, SHORTDIV, HEADER, BLANK, PASSED, NUMBERED}

\* the lines of a buffer handed to the classifier alone
NOTE       == <<"n", "o", "t", "e">>
NOTICE     == <<"I", "n", "i", "t", "i", "a", "l", "i", "z", "e", "d">>
EQCHECK    == <<"=", ">", " ", "chk">>
NOTEDCHECK == <<"chk", " ", "i", "n", "i", "t", "i", "a", "l", "i", "z", "e", "d">>
INDENTEDDIV == <<" ">> \o Repeat("=", DIVIDER_RUN) \o <<"=">>
ClassifierLines == {DIVIDER, INDENTEDDIV, SHORTDIV, EQCHECK, NOTEDCHECK, BLANK, NOTE, PASSED}

\* the words of a text handed to the wrapper alone
WrapWords == {<<"a">>, <<"b", "b">>, <<"c", "c", "c", "c">>}

\* ' '.join(words)
RECURSIVE Join(_)
Join(ws) ==
    IF ws = <<>> THEN <<>>
    ELSE IF Len(ws) = 1 THEN ws[1]
    ELSE ws[1] \o <<" ">> \o Join(Tail(ws))

WrapTexts ==
    {lead \o Join(ws) : lead \in {<<>>, <<" ">>}, ws \in SeqsUpTo(WrapWords, MaxWords)}

----------------------------------------------------------------------------
(* The driver: process_test_output run as the script *)

NoCall == <<>>

IdleWrap == text = NoCall /\ indent_len = 0 /\ max_width = 0 /\ wrapped_lines = NoCall
IdleClassifier == start_idx = 0 /\ is_empty = FALSE
IdleDriver == i = 0 /\ out = <<>> /\ src = <<>> /\ visits = <<>>

Init ==
    /\ TERM_WIDTH \in 1..MaxWidth
    /\ lines = <<>>
    /\ pc = "read"
    /\ IdleDriver /\ IdleWrap /\ IdleClassifier

callVars == <<text, indent_len, max_width, wrapped_lines, start_idx, is_empty>>

\* for line in sys.stdin: lines.append(line.rstrip('\n'))
ReadLine ==
    /\ pc = "read"
    /\ Len(lines) < MaxLines
    /\ \E line \in InputLines : lines' = Append(lines, line)
    /\ UNCHANGED <<TERM_WIDTH, i, out, src, visits, pc, callVars>>

\* stdin is exhausted: i = 0
EndOfInput ==
    /\ pc = "read"
    /\ pc' = "loop"
    /\ i' = 0
    /\ visits' = [k \in 1..Len(lines) |-> 0]
    /\ UNCHANGED <<TERM_WIDTH, lines, out, src, callVars>>

Visit(ks) == [k \in DOMAIN visits |-> IF k \in ks THEN visits[k] + 1 ELSE visits[k]]

\* one iteration taking the "if is_empty" branch: both lines printed in GRAY
DimSection ==
    /\ pc = "loop"
    /\ i < Len(lines)
    /\ IsEmptySectionAt(lines, i)
    /\ out' = out \o <<Dimmed(lines[i + 1]), Dimmed(lines[i + 2])>>
    /\ src' = src \o <<i + 1, i + 2>>
    /\ visits' = Visit({i + 1, i + 2})
    /\ i' = DimAdvance
    /\ UNCHANGED <<TERM_WIDTH, lines, pc, callVars>>

\* one iteration taking the "if len(full_line) > TERM_WIDTH" branch
WrapStatus ==
    /\ pc = "loop"
    /\ i < Len(lines)
    /\ ~IsEmptySectionAt(lines, i)
    /\ \E m \in {StatusMatch(lines[i + 1])} :
        /\ m.ok
        /\ NeedsWrap(lines[i + 1], m, TERM_WIDTH)
        /\ \E group \in {WrappedGroup(m, TERM_WIDTH)} :
            /\ out' = out \o group
            /\ src' = src \o [j \in 1..Len(group) |-> i + 1]
    /\ visits' = Visit({i + 1})
    /\ i' = i + 1
    /\ UNCHANGED <<TERM_WIDTH, lines, pc, callVars>>

\* one iteration reaching print(line)
PrintAsIs ==
    /\ pc = "loop"
    /\ i < Len(lines)
    /\ ~IsEmptySectionAt(lines, i)
    /\ \E m \in {StatusMatch(lines[i + 1])} : ~(m.ok /\ NeedsWrap(lines[i + 1], m, TERM_WIDTH))
    /\ out' = Append(out, lines[i + 1])
    /\ src' = Append(src, i + 1)
    /\ visits' = Visit({i + 1})
    /\ i' = i + 1
    /\ UNCHANGED <<TERM_WIDTH, lines, pc, callVars>>

\* while i < len(lines) is false
Exit ==
    /\ pc = "loop"
    /\ ~(i < Len(lines))
    /\ pc' = "done"
    /\ UNCHANGED <<TERM_WIDTH, lines, i, out, src, visits, callVars>>

\* one step of the script: a line read, the end of stdin, or one pass of the
\* while loop through one of its three exits
Next == ReadLine \/ EndOfInput \/ PrintAsIs \/ WrapStatus \/ DimSection \/ Exit

Spec == Init /\ [][Next]_vars

\* the interpreter runs the next statement of a sequential program
FairSpec == Spec /\ WF_vars(Next)

----------------------------------------------------------------------------
(* wrap_text_with_indent called on its own *)

\* max_width ranges over the positive widths
InitWrap ==
    /\ TERM_WIDTH = FALLBACK_COLUMNS
    /\ lines = <<>>
    /\ pc = "wrap"
    /\ text \in WrapTexts
    /\ indent_len \in 0..MaxIndent
    /\ max_width \in 1..MaxWrapWidth
    /\ wrapped_lines = NoCall
    /\ IdleDriver /\ IdleClassifier

CallWrap ==
    /\ pc = "wrap"
    /\ wrapped_lines' = wrap_text_with_indent(text, indent_len, max_width)
    /\ pc' = "wrapped"
    /\ UNCHANGED <<TERM_WIDTH, lines, i, out, src, visits,
                   text, indent_len, max_width, start_idx, is_empty>>

SpecWrap == InitWrap /\ [][CallWrap]_vars

----------------------------------------------------------------------------
(* is_empty_test_file_section called on its own *)

ClassifierBuffers ==
    {Repeat(pad, n) \o tail :
        pad \in {BLANK, NOTICE}, n \in 0..MaxPad,
        tail \in SeqsUpTo(ClassifierLines, MaxTail)}

InitClassifier ==
    /\ TERM_WIDTH = FALLBACK_COLUMNS
    /\ lines \in ClassifierBuffers
    /\ start_idx \in 0..Len(lines)
    /\ is_empty = FALSE
    /\ pc = "classify"
    /\ IdleDriver /\ IdleWrap

CallClassifier ==
    /\ pc = "classify"
    /\ is_empty' = is_empty_test_file_section(lines, start_idx)
    /\ pc' = "classified"
    /\ UNCHANGED <<TERM_WIDTH, lines, i, out, src, visits,
                   text, indent_len, max_width, wrapped_lines, start_idx>>

SpecClassifier == InitClassifier /\ [][CallClassifier]_vars

----------------------------------------------------------------------------
(* Vocabulary of the properties *)

Range(f) == {f[k] : k \in DOMAIN f}

\* the output lines written for input line k, in order
Group(k) ==
    LET idx   == {j \in 1..Len(out) : src[j] = k}
        first == CHOOSE j \in idx : \A m \in idx : j <= m
    IN  [m \in 1..Cardinality(idx) |-> out[first + m - 1]]

\* o is l between the gray and the reset escape sequence
Decorated(o, l) ==
    o = <<"ESC", "[", "9", "0", "m">> \o l \o <<"ESC", "[", "0", "m">>

\* the trimmed line starts with at least 10 '='
StartsWithTenEquals(line) ==
    LET t == Strip(line) IN Len(t) >= 10 /\ \A j \in 1..10 : t[j] = "="

\* the trimmed line starts with "Testing:"
StartsWithTesting(line) ==
    LET t == Strip(line) IN Len(t) >= 8 /\ SubSeq(t, 1, 8) = TESTING

\* input line k (1-based) is a divider followed by a header
DividerOfPair(k) ==
    /\ k \in 1..(Len(lines) - 1)
    /\ StartsWithTenEquals(lines[k])
    /\ StartsWithTesting(lines[k + 1])

\* input line k is the divider, or the header, of a section classified empty
EmptySectionLine(k) ==
    \/ DividerOfPair(k) /\ is_empty_test_file_section(lines, k + 1)
    \/ DividerOfPair(k - 1) /\ is_empty_test_file_section(lines, k)

\* input line k is a status line whose reconstruction is longer than the terminal
LongStatus(k) ==
    LET m == StatusMatch(lines[k]) IN
    m.ok /\ Len(m.indent) + Len(m.status) + 1 + Len(m.description) > TERM_WIDTH

AllStatusShort == \A k \in 1..Len(lines) : ~LongStatus(k)

----------------------------------------------------------------------------
(* C1: the finished output is, in input order, one non-empty group of      *)
(* lines per input line: the line itself, the line in the gray/reset       *)
(* decoration, or (for a status line) a group whose first line carries the *)
(* indent and marker.  A line that is neither part of a divider+header     *)
(* pair nor a status line is written unchanged, and the output is never    *)
(* shorter than the input.                                                 *)
OutputIsGroupsInOrder ==
    pc = "done" =>
        /\ Len(src) = Len(out)
        /\ \A j \in 1..(Len(src) - 1) : src[j] <= src[j + 1]
        /\ Range(src) = 1..Len(lines)
        /\ Len(out) >= Len(lines)
        /\ \A k \in 1..Len(lines) :
            LET g == Group(k)
                m == StatusMatch(lines[k])
            IN  /\ \/ g = <<lines[k]>>
                   \/ Len(g) = 1 /\ Decorated(g[1], lines[k])
                   \/ /\ m.ok
                      /\ Len(g) >= 1
                      /\ StartsWith(g[1], m.indent \o m.status \o <<" ">>)
                /\ (~m.ok /\ ~DividerOfPair(k) /\ ~DividerOfPair(k - 1))
                      => g = <<lines[k]>>

\* a finished run that wrapped a line into several, dimmed one and passed one
OutputIsGroupsInOrderWitness ==
    /\ pc = "done"
    /\ \E k \in 1..Len(lines) : Len(Group(k)) >= 2
    /\ \E k \in 1..Len(lines) : Decorated(Group(k)[1], lines[k])
    /\ \E k \in 1..Len(lines) : Group(k) = <<lines[k]>>

(* C2: when no status line's reconstruction is longer than the terminal,   *)
(* the finished output is the input line for line, except that the divider *)
(* and header of a section classified empty are decorated; a status line   *)
(* is written as its raw text.                                             *)
ShortLinesPassThrough ==
    (pc = "done" /\ AllStatusShort) =>
        /\ Len(out) = Len(lines)
        /\ \A k \in 1..Len(lines) :
            \/ out[k] = lines[k]
            \/ EmptySectionLine(k) /\ Decorated(out[k], lines[k])

\* a finished run with a status line whose raw text is longer than the terminal
\* while its reconstruction is not
ShortLinesPassThroughWitness ==
    /\ pc = "done"
    /\ AllStatusShort
    /\ \E k \in 1..Len(lines) :
        /\ StatusMatch(lines[k]).ok
        /\ FullLine(StatusMatch(lines[k])) # lines[k]
        /\ Len(lines[k]) > TERM_WIDTH
        /\ out[k] = lines[k]

\* what is left of the group of status line k once the indent and marker are
\* taken off its first line and the leading whitespace off every line
GroupContent(k) ==
    LET g == Group(k)
        m == StatusMatch(lines[k])
    IN  [j \in 1..Len(g) |->
            LStrip(IF j = 1
                   THEN SubSeq(g[1], Len(m.indent) + Len(m.status) + 1, Len(g[1]))
                   ELSE g[j])]

(* C3: for a wrapped status line, the contents of its output lines joined  *)
(* with single spaces are the words of its description joined with single  *)
(* spaces: every word once, in order, unsplit.                             *)
WrappedWordsPreserved ==
    pc = "done" =>
        \A k \in 1..Len(lines) : LongStatus(k) =>
            /\ StartsWith(Group(k)[1], StatusMatch(lines[k]).indent \o StatusMatch(lines[k]).status)
            /\ Join(GroupContent(k)) = Join(Split(StatusMatch(lines[k]).description))

\* a finished run that wrapped a status line into at least two lines
WrappedWordsPreservedWitness ==
    /\ pc = "done"
    /\ \E k \in 1..Len(lines) :
        /\ LongStatus(k)
        /\ Len(Group(k)) >= 2
        /\ Len(Split(StatusMatch(lines[k]).description)) >= 3

(* C4: every line wrap_text_with_indent returns is at most max_width long, *)
(* unless it holds a single word that is itself longer than max_width.     *)
WrappedLinesFit ==
    pc = "wrapped" =>
        \A j \in 1..Len(wrapped_lines) :
            \/ Len(wrapped_lines[j]) <= max_width
            \/ /\ Len(Split(wrapped_lines[j])) = 1
               /\ Len(Split(wrapped_lines[j])[1]) > max_width

(* C5: a line of the finished output is decorated exactly when it was      *)
(* written for the divider or the header of a divider+header pair whose    *)
(* section the classifier finds empty; such a line is written once, as the *)
(* decorated input line alone, and every other output line holds no escape *)
(* character.                                                              *)
DimExactlyEmptySections ==
    pc = "done" =>
        \A j \in 1..Len(out) :
            LET k == src[j] IN
            /\ Decorated(out[j], lines[k]) <=> EmptySectionLine(k)
            /\ EmptySectionLine(k) => (Len(Group(k)) = 1 /\ visits[k] = 1)
            /\ ~EmptySectionLine(k) => "ESC" \notin Range(out[j])

\* a finished run that dimmed a section ended by a '=' line after a blank one
DimExactlyEmptySectionsWitness ==
    /\ pc = "done"
    /\ Len(lines) = 4
    /\ Decorated(out[1], lines[1])
    /\ Decorated(out[2], lines[2])
    /\ lines[3] = BLANK
    /\ out[4] = lines[4]
    /\ StartsWithTenEquals(lines[4])

----------------------------------------------------------------------------
(* Properties of the classifier called on its own *)

CHECKMARK == <<"chk">>

\* some line j (0-based) at or after start_idx holds a checkmark and no line
\* from start_idx to j is a divider
CheckmarkBeforeDivider ==
    \E j \in start_idx..(Len(lines) - 1) :
        /\ Contains(lines[j + 1], CHECKMARK)
        /\ \A m \in start_idx..j : ~StartsWithTenEquals(lines[m + 1])

\* some line j inside the 15-line window holds a checkmark and no
\* "initialized", and no line after start_idx up to j begins with '='
CheckmarkSeenByScan ==
    \E j \in start_idx..(Min(start_idx + 15, Len(lines)) - 1) :
        /\ Contains(lines[j + 1], CHECKMARK)
        /\ ~Contains(Lower(lines[j + 1]), INITIALIZED)
        /\ \A m \in (start_idx + 1)..j : ~StartsWith(Strip(lines[m + 1]), <<"=">>)

ImmediateDividerIsEmpty ==
    pc = "classified" =>
        (( \/ /\ start_idx < Len(lines)
              /\ StartsWithTenEquals(lines[start_idx + 1])
           \/ /\ start_idx + 1 < Len(lines)
              /\ Strip(lines[start_idx + 1]) = <<>>
              /\ StartsWithTenEquals(lines[start_idx + 2]) )
         => is_empty = TRUE)

\* a divider line of the classifier's description: a trimmed line of at least
\* 10 characters, all of them '='
IsRunOfEquals(line) == Len(line) >= 10 /\ \A j \in 1..Len(line) : line[j] = "="

\* the classifier as section 4.1 of the specification describes it
RECURSIVE ReferenceScan(_, _, _, _)
ReferenceScan(buf, start, k, found) ==
    IF k >= Min(start + 15, Len(buf)) THEN found = 0
    ELSE LET line == Strip(buf[k + 1]) IN
         IF line = <<>> \/ Contains(Lower(line), INITIALIZED)
         THEN ReferenceScan(buf, start, k + 1, found)
         ELSE IF IsRunOfEquals(line) /\ k > start THEN found = 0
         ELSE IF \E ind \in INDICATORS : Contains(line, ind) THEN FALSE
         ELSE ReferenceScan(buf, start, k + 1, found + 1)

(* C8: the classifier returns what the classifier of section 4.1 returns,  *)
(* whose scan only a line of 10 or more '=' after start_idx stops early.   *)
ClassifierMatchesReference ==
    pc = "classified" => is_empty = ReferenceScan(lines, start_idx, start_idx, 0)

----------------------------------------------------------------------------
(* Properties of the cursor and of the layout of wrapped groups *)

(* C9: the cursor starts at 0, stays within the buffer, moves forward by 2 *)
(* in an iteration that dims an empty section and by 1 in any other, the   *)
(* loop ends with the cursor at the buffer's length, and each input line   *)
(* is consumed by exactly one iteration.                                   *)
CursorAdvances ==
    /\ [](pc = "read" => i = 0)
    /\ [](i \in 0..Len(lines) \/ pc = "read")
    /\ [][(pc = "loop" /\ pc' = "loop") =>
            IF DividerOfPair(i + 1) /\ is_empty_test_file_section(lines, i + 2)
            THEN i' = i + 2 ELSE i' = i + 1]_vars
    /\ [][pc = "read" /\ pc' = "loop" => i' = 0]_vars
    /\ [](pc \in {"loop", "done"} =>
            \A k \in 1..Len(lines) : visits[k] = IF k <= i THEN 1 ELSE 0)
    /\ [](pc = "done" => i = Len(lines))
    /\ <>(pc = "done")

\* a finished run over a full buffer whose cursor moved by 2 once and by 1 twice
CursorAdvancesWitness ==
    /\ pc = "done"
    /\ i = MaxLines
    /\ Len(out) = MaxLines
    /\ \E k \in 1..(MaxLines - 1) :
        Decorated(out[k], lines[k]) /\ Decorated(out[k + 1], lines[k + 1])
    /\ \A k \in 1..MaxLines : visits[k] = 1

(* C10: in the group written for a wrapped status line, the first line is  *)
(* the indent, the marker, one space and then the first word of the        *)
(* description, and every later line is indent_width spaces and then a     *)
(* word.                                                                   *)
WrappedGroupAligned ==
    pc = "done" =>
        \A k \in 1..Len(lines) :
            LET m     == StatusMatch(lines[k])
                words == Split(m.description)
                g     == Group(k)
                width == Len(m.indent) + Len(m.status) + 1
            IN  (LongStatus(k) /\ words # <<>>) =>
                /\ StartsWith(g[1], m.indent \o m.status \o <<" ">> \o words[1])
                /\ \A j \in 2..Len(g) :
                    /\ Len(g[j]) > width
                    /\ SubSeq(g[j], 1, width) = Repeat(" ", width)
                    /\ ~IsSpace(g[j][width + 1])

=============================================================================
